---- MODULE Spec2Model ----
(***************************************************************************)
(* A model of src/src/epos_driver.py: the EPOS session object (class       *)
(* EPOS), the vendor command library it calls through ctypes, and the      *)
(* program entry sequence under `if __name__ == "__main__"`.               *)
(*                                                                         *)
(* Every method of the class is one action.  The answers of the vendor     *)
(* library (return flag, output parameters, error code) are inputs the     *)
(* action draws with \E.  Each invocation records the library calls it     *)
(* made, in order, in `calls`, and what it gave its caller in `result`.    *)
(***************************************************************************)
EXTENDS Integers, Sequences, FiniteSets

(***************************************************************************)
(* Bounds of the model.                                                    *)
(***************************************************************************)
MaxHandle == 1
\* Entries a selection of the library has at most.
MaxSel == 4
\* Selection calls that fail during one discovery method, at most.
MaxFail == 1

(***************************************************************************)
(* Values the vendor library can hand back.                                *)
(***************************************************************************)
\* VCS_OpenDevice: 0 on failure, else a handle.  ctypes reads the result as
\* a C int, so a handle can come back negative.
HandleValues == (1 .. MaxHandle) \cup {-1}
\* BOOL results: 0 is failure, nonzero is success.
Rets == {0, 1}
\* Error codes written through pErrorCode.
ErrorCodes == {0, 4660}

(***************************************************************************)
(* Python values given back to the caller.                                 *)
(***************************************************************************)
PyTrue == [t |-> "bool", v |-> 1]
PyFalse == [t |-> "bool", v |-> 0]
PyNone == [t |-> "none", v |-> 0]
PyInt(n) == [t |-> "int", v |-> n]
PyList == [t |-> "list", v |-> 0]

Return(val) == [kind |-> "return", val |-> val, exc |-> "none", code |-> 0]
Raise(e, c) == [kind |-> "raise", val |-> PyNone, exc |-> e, code |-> c]
\* The interpreter process was killed inside a native call.
Crash == [kind |-> "crash", val |-> PyNone, exc |-> "none", code |-> 0]
NoResult == [kind |-> "none", val |-> PyNone, exc |-> "none", code |-> 0]

\* One call into the vendor library: the function, the handle passed (0 for
\* the functions that take none), the other inputs, the BOOL or handle it
\* returned, the value it wrote to its output parameter, the error code.
HW(fn, h, a, r, o, e) ==
    [fn |-> fn, handle |-> h, arg |-> a, ret |-> r, out |-> o, err |-> e]

VARIABLES
    device_name, protocol_name, interface_name, port_name, node_id,
    key_handle,
    live,
    lifecycle,
    pc,
    op,
    calls,
    result,
    ops,
    pending,
    sel,
    hw

session == <<device_name, protocol_name, interface_name, port_name, node_id>>
vars == <<device_name, protocol_name, interface_name, port_name, node_id,
          key_handle, live, lifecycle, pc, op, calls, result, ops, pending,
          sel, hw>>

\* Port names VCS_GetPortNameSelection can report; "" is the buffer left
\* unwritten.
PortNames == {"USB0", "USB1", ""}

(***************************************************************************)
(* The lifecycle of spec section 4.4, as an observer of the session: the   *)
(* state the spec's machine is in after the operations that succeeded.     *)
(***************************************************************************)
LifecycleNext(s, name, ok) ==
    IF ~ok THEN s
    ELSE CASE name = "open_device" /\ s = "Unopened" -> "Opened"
           [] name = "clear_fault" /\ s = "Opened" -> "Ready"
           [] name = "enable_state" /\ s \in {"Ready", "Disabled"} -> "Enabled"
           [] name = "disable_state" /\ s = "Enabled" -> "Disabled"
           [] name = "close_device" /\ s # "Closed" -> "Closed"
           [] OTHER -> s

(***************************************************************************)
(* print_error_info: asks the library for the description of a nonzero     *)
(* error code, with a 40 byte buffer.                                      *)
(***************************************************************************)
print_error_info(ec) ==
    IF ec # 0 THEN <<HW("VCS_GetErrorInfo", 0, <<ec, 40>>, 1, 0, 0)>> ELSE <<>>

Init ==
    /\ device_name = "EPOS4"
    /\ protocol_name = "MAXON SERIAL V2"
    /\ interface_name = "USB"
    /\ port_name \in PortNames
    /\ node_id = 1
    /\ key_handle = 0
    /\ live = {}
    /\ lifecycle = "Unopened"
    /\ pc \in {"free", "L487"}
    /\ op = [name |-> "none", arg |-> <<>>]
    /\ calls = <<>>
    /\ result = NoResult
    /\ ops = <<>>
    /\ pending = FALSE
    /\ sel = [method |-> "none", phase |-> "none", list |-> <<>>, eos |-> 0, buf |-> 0]
    /\ hw = [n |-> 0, idx |-> 0, fails |-> 0]

(***************************************************************************)
(* The library answers a command only on a handle it holds open: on any    *)
(* other handle the command fails (returns 0).                             *)
(***************************************************************************)
HwRets(h) == IF h \in live THEN Rets ELSE {0}
\* The error code that goes with a return flag.
HwCodes(r) == IF r = 0 THEN ErrorCodes ELSE {0}

(***************************************************************************)
(* self.epos.VCS_GetErrorInfo(error_code.value), as the failure branches   *)
(* of the set_, get_ and move methods call it: with one of the function's  *)
(* three arguments.  The native function reads its buffer pointer and      *)
(* buffer size from registers the call never set, so it either returns or  *)
(* faults the process.                                                     *)
(***************************************************************************)
GetErrorInfoOutcomes == {"returned", "fault"}
GetErrorInfo1(ec, g) ==
    <<HW("VCS_GetErrorInfo", 0, <<ec>>, IF g = "fault" THEN 0 ELSE 1, 0, 0)>>

(***************************************************************************)
(* open_device                                                             *)
(***************************************************************************)
OpenDeviceCall(h, ec) ==
    HW("VCS_OpenDevice", 0,
       <<device_name, protocol_name, interface_name, port_name>>, h, 0, ec)

open_device_calls(h, ec) ==
    <<OpenDeviceCall(h, ec)>> \o (IF h # 0 THEN <<>> ELSE print_error_info(ec))

\* open_device with a slip: a failed open keeps the handle it had.
open_device_keeps_handle(h, ec) ==
    /\ key_handle' = (IF h # 0 THEN h ELSE key_handle)
    /\ live' = IF h # 0 THEN live \cup {h} ELSE live
    /\ op' = [name |-> "open_device", arg |-> <<>>]
    /\ calls' = open_device_calls(h, ec)
    /\ result' = IF h # 0 THEN Return(PyTrue) ELSE Return(PyFalse)
    /\ lifecycle' = LifecycleNext(lifecycle, "open_device", h # 0)
    /\ UNCHANGED session

open_device_do(h, ec) ==
    /\ key_handle' = h
    /\ live' = IF h # 0 THEN live \cup {h} ELSE live
    /\ op' = [name |-> "open_device", arg |-> <<>>]
    /\ calls' = open_device_calls(h, ec)
    /\ result' = IF h # 0 THEN Return(PyTrue) ELSE Return(PyFalse)
    /\ lifecycle' = LifecycleNext(lifecycle, "open_device", h # 0)
    /\ UNCHANGED session

open_device ==
    \E h \in (HandleValues \ live) \cup {0} :
        \E ec \in (IF h = 0 THEN ErrorCodes ELSE {0}) :
            open_device_do(h, ec)

(***************************************************************************)
(* close_device                                                            *)
(***************************************************************************)
close_device_do(r, ec) ==
    /\ op' = [name |-> "close_device", arg |-> <<>>]
    /\ calls' = <<HW("VCS_CloseDevice", key_handle, <<>>, r, 0, ec)>>
                  \o (IF r = 0 THEN print_error_info(ec) ELSE <<>>)
    /\ result' = IF r = 0 THEN Return(PyFalse) ELSE Return(PyTrue)
    /\ live' = IF r = 0 THEN live ELSE live \ {key_handle}
    /\ lifecycle' = LifecycleNext(lifecycle, "close_device", r # 0)
    /\ UNCHANGED <<session, key_handle>>

close_device ==
    \E r \in HwRets(key_handle) : \E ec \in HwCodes(r) : close_device_do(r, ec)

(***************************************************************************)
(* clear_fault                                                             *)
(***************************************************************************)
\* kh is self.key_handle at the time of the call.
clear_fault_calls(kh, r, ec) ==
    <<HW("VCS_ClearFault", kh, <<node_id>>, r, 0, ec)>>
      \o (IF r = 0 THEN print_error_info(ec) ELSE <<>>)

clear_fault_do(r, ec) ==
    /\ op' = [name |-> "clear_fault", arg |-> <<>>]
    /\ calls' = clear_fault_calls(key_handle, r, ec)
    /\ result' = IF r = 0 THEN Return(PyFalse) ELSE Return(PyTrue)
    /\ lifecycle' = LifecycleNext(lifecycle, "clear_fault", r # 0)
    /\ UNCHANGED <<session, key_handle, live>>

clear_fault ==
    \E r \in HwRets(key_handle) : \E ec \in HwCodes(r) : clear_fault_do(r, ec)

(***************************************************************************)
(* device_error_check: the library calls it makes and what it returns,     *)
(* given the query's return flag r, the count nb it wrote and its error    *)
(* code ec.  The return flag is not read.                                  *)
(***************************************************************************)
MaxDevErrors == 2
\* nb_device_error starts as c_uint() = 0 and a failed query leaves it.
ErrorCounts(r) == IF r = 0 THEN {0} ELSE 0 .. MaxDevErrors

device_error_check_calls(r, nb, ec) ==
    <<HW("VCS_GetNbOfDeviceError", key_handle, <<node_id>>, r, nb, ec)>>
      \o (IF nb >= 1 THEN <<>> ELSE print_error_info(ec))

\* device_error_check with a slip: the comparison is > where the code has >=.
device_error_check_gt(r, nb, ec) == ~(nb > 1)

device_error_check(r, nb, ec) == ~(nb >= 1)

(***************************************************************************)
(* enable_state.  q = <<r, nb, ec>> answers VCS_GetNbOfDeviceError,        *)
(* s = <<r, ec>> answers VCS_SetEnableState, g = <<r, enabled>> answers    *)
(* VCS_GetEnableState.                                                     *)
(***************************************************************************)
enable_state_calls(q, s, g) ==
    device_error_check_calls(q[1], q[2], q[3])
      \o (IF device_error_check(q[1], q[2], q[3])
          THEN <<HW("VCS_SetEnableState", key_handle, <<node_id>>, s[1], 0, s[2])>>
                 \o (IF s[1] = 0
                     THEN print_error_info(s[2])
                     ELSE <<HW("VCS_GetEnableState", key_handle, <<node_id>>,
                               g[1], g[2], 0)>>)
          ELSE <<>>)

\* enable_state with a slip: the re-query's answer is not read.
enable_state_value_no_requery(q, s, g) ==
    IF device_error_check(q[1], q[2], q[3])
    THEN IF s[1] = 0 THEN PyFalse ELSE PyTrue
    ELSE PyFalse

enable_state_value(q, s, g) ==
    IF device_error_check(q[1], q[2], q[3])
    THEN IF s[1] = 0 THEN PyFalse
         ELSE IF g[2] = 1 THEN PyTrue ELSE PyFalse
    ELSE PyFalse

enable_state_do(q, s, g) ==
    /\ op' = [name |-> "enable_state", arg |-> <<>>]
    /\ calls' = enable_state_calls(q, s, g)
    /\ result' = Return(enable_state_value(q, s, g))
    /\ lifecycle' = LifecycleNext(lifecycle, "enable_state",
                                  enable_state_value(q, s, g) = PyTrue)
    /\ UNCHANGED <<session, key_handle, live>>

\* pls_enabled starts as c_bool() = False and a failed query leaves it.
FlagOut(r) == IF r = 0 THEN {0} ELSE {0, 1}

enable_state ==
    \E qr \in HwRets(key_handle) : \E nb \in ErrorCounts(qr) : \E qe \in HwCodes(qr) :
    \E sr \in HwRets(key_handle) : \E se \in HwCodes(sr) :
    \E gr \in HwRets(key_handle) : \E en \in FlagOut(gr) :
        \* the answers of calls that are not made are not drawn
        /\ (~device_error_check(qr, nb, qe)) => (sr = 0 /\ se = 0)
        /\ (~device_error_check(qr, nb, qe) \/ sr = 0) => (gr = 0 /\ en = 0)
        /\ enable_state_do(<<qr, nb, qe>>, <<sr, se>>, <<gr, en>>)

(***************************************************************************)
(* disable_state.  s = <<r, ec>> answers VCS_SetDisableState,              *)
(* g = <<r, disabled>> answers VCS_GetDisableState.                        *)
(***************************************************************************)
disable_state_calls(s, g) ==
    <<HW("VCS_SetDisableState", key_handle, <<node_id>>, s[1], 0, s[2])>>
      \o (IF s[1] = 0 THEN <<>>
          ELSE <<HW("VCS_GetDisableState", key_handle, <<node_id>>, g[1], g[2], 0)>>)

disable_state_value(s, g) ==
    IF s[1] = 0 THEN PyFalse
    ELSE IF g[2] = 1 THEN PyTrue ELSE PyFalse

disable_state_do(s, g) ==
    /\ op' = [name |-> "disable_state", arg |-> <<>>]
    /\ calls' = disable_state_calls(s, g)
    /\ result' = Return(disable_state_value(s, g))
    /\ lifecycle' = LifecycleNext(lifecycle, "disable_state",
                                  disable_state_value(s, g) = PyTrue)
    /\ UNCHANGED <<session, key_handle, live>>

disable_state ==
    \E sr \in HwRets(key_handle) : \E se \in HwCodes(sr) :
    \E gr \in HwRets(key_handle) : \E ds \in FlagOut(gr) :
        /\ sr = 0 => (gr = 0 /\ ds = 0)
        /\ disable_state_do(<<sr, se>>, <<gr, ds>>)

(***************************************************************************)
(* ppm_move_position_encoder.  m = <<r, ec>> answers VCS_MoveToPosition,   *)
(* w = <<r, ec>> answers VCS_WaitForTargetReached, g is the outcome of the *)
(* one-argument VCS_GetErrorInfo call in the raise statement's message.    *)
(***************************************************************************)
ppm_move_position_encoder_calls(target_position, abosolute, immediate, blocking_time, m, w, g) ==
    <<HW("VCS_MoveToPosition", key_handle,
         <<node_id, target_position, abosolute, immediate>>, m[1], 0, m[2])>>
      \o (IF m[1] # 0
          THEN <<HW("VCS_WaitForTargetReached", key_handle,
                    <<node_id, blocking_time>>, w[1], 0, w[2])>>
          ELSE GetErrorInfo1(m[2], g))

\* ppm_move_position_encoder with a slip: a failed wait raises too.
ppm_move_position_encoder_result_wait_fatal(m, w, g) ==
    IF m[1] # 0
    THEN IF w[1] # 0 THEN Return(PyTrue) ELSE Raise("RuntimeError", w[2])
    ELSE IF g = "fault" THEN Crash
    ELSE Raise("RuntimeError", m[2])

ppm_move_position_encoder_result(m, w, g) ==
    IF m[1] # 0 THEN Return(PyTrue)
    ELSE IF g = "fault" THEN Crash
    ELSE Raise("RuntimeError", m[2])

ppm_move_position_encoder_do(target_position, abosolute, immediate, blocking_time, m, w, g) ==
    /\ op' = [name |-> "ppm_move_position_encoder",
              arg |-> <<target_position, abosolute, immediate, blocking_time>>]
    /\ calls' = ppm_move_position_encoder_calls(
                    target_position, abosolute, immediate, blocking_time, m, w, g)
    /\ result' = ppm_move_position_encoder_result(m, w, g)
    /\ UNCHANGED <<session, key_handle, live, lifecycle>>

ppm_move_position_encoder(target_position, abosolute, immediate, blocking_time) ==
    \E mr \in HwRets(key_handle) : \E me \in HwCodes(mr) :
    \E wr \in HwRets(key_handle) : \E we \in HwCodes(wr) :
    \E g \in GetErrorInfoOutcomes :
        /\ mr = 0 => (wr = 0 /\ we = 0)
        /\ mr # 0 => g = "returned"
        /\ ppm_move_position_encoder_do(
               target_position, abosolute, immediate, blocking_time,
               <<mr, me>>, <<wr, we>>, g)

(***************************************************************************)
(* ppm_move_position.  The angle is num * pi / den radians (den > 0).      *)
(* target_position = int(4 * 1024 * 35 * target_angle / 2 / np.pi): the    *)
(* quotient 4 * 1024 * 35 * num / (2 * den), which int() cuts toward zero. *)
(* The doubles of the code are taken as exact here.  The move is then      *)
(* ppm_move_position_encoder's; what that returns is assigned to a local   *)
(* and the method ends without a return statement, so an exception of the  *)
(* delegate passes through and anything else becomes None.                 *)
(***************************************************************************)
\* int(): toward zero.
int_div(a, b) == IF a >= 0 THEN a \div b ELSE -((-a) \div b)

ppm_move_position_target(num, den) == int_div(4 * 1024 * 35 * num, 2 * den)

ppm_move_position_result(r) == IF r.kind = "return" THEN Return(PyNone) ELSE r

ppm_move_position_do(num, den, abosolute, immediate, block_time, m, w, g) ==
    /\ op' = [name |-> "ppm_move_position",
              arg |-> <<num, den, abosolute, immediate, block_time>>]
    /\ calls' = ppm_move_position_encoder_calls(
                    ppm_move_position_target(num, den),
                    abosolute, immediate, block_time, m, w, g)
    /\ result' = ppm_move_position_result(ppm_move_position_encoder_result(m, w, g))
    /\ UNCHANGED <<session, key_handle, live, lifecycle>>

ppm_move_position(num, den, abosolute, immediate, block_time) ==
    \E mr \in HwRets(key_handle) : \E me \in HwCodes(mr) :
    \E wr \in HwRets(key_handle) : \E we \in HwCodes(wr) :
    \E g \in GetErrorInfoOutcomes :
        /\ mr = 0 => (wr = 0 /\ we = 0)
        /\ mr # 0 => g = "returned"
        /\ ppm_move_position_do(num, den, abosolute, immediate, block_time,
                                <<mr, me>>, <<wr, we>>, g)

(***************************************************************************)
(* set_protocal_stack: one VCS_SetProtocolStackSettings call, 1000000 baud *)
(* and 500 ms; neither its return flag nor its error code is read.         *)
(***************************************************************************)
set_protocal_stack_calls(kh, r, ec) ==
    <<HW("VCS_SetProtocolStackSettings", kh, <<1000000, 500>>, r, 0, ec)>>

set_protocal_stack_do(r, ec) ==
    /\ op' = [name |-> "set_protocal_stack", arg |-> <<>>]
    /\ calls' = set_protocal_stack_calls(key_handle, r, ec)
    /\ result' = Return(PyNone)
    /\ UNCHANGED <<session, key_handle, live, lifecycle>>

set_protocal_stack ==
    \E r \in HwRets(key_handle) : \E ec \in HwCodes(r) : set_protocal_stack_do(r, ec)

(***************************************************************************)
(* initialize_device: open_device, set_protocal_stack, clear_fault, one    *)
(* after the other; none of their results is read and nothing is returned. *)
(* o = <<h, ec>> answers VCS_OpenDevice, p = <<r, ec>> answers             *)
(* VCS_SetProtocolStackSettings, c = <<r, ec>> answers VCS_ClearFault.     *)
(***************************************************************************)
initialize_device_do(o, p, c) ==
    /\ key_handle' = o[1]
    /\ live' = IF o[1] # 0 THEN live \cup {o[1]} ELSE live
    /\ op' = [name |-> "initialize_device", arg |-> <<>>]
    /\ calls' = open_device_calls(o[1], o[2])
                  \o set_protocal_stack_calls(o[1], p[1], p[2])
                  \o clear_fault_calls(o[1], c[1], c[2])
    /\ result' = Return(PyNone)
    /\ lifecycle' = LifecycleNext(LifecycleNext(lifecycle, "open_device", o[1] # 0),
                                  "clear_fault", c[1] # 0)
    /\ UNCHANGED session

initialize_device ==
    \E h \in (HandleValues \ live) \cup {0} :
    \E oe \in (IF h = 0 THEN ErrorCodes ELSE {0}) :
    \E pr \in (IF h # 0 THEN Rets ELSE {0}) : \E pe \in HwCodes(pr) :
    \E cr \in (IF h # 0 THEN Rets ELSE {0}) : \E ce \in HwCodes(cr) :
        initialize_device_do(<<h, oe>>, <<pr, pe>>, <<cr, ce>>)

(***************************************************************************)
(* The failure branch of the set_ and get_ methods: two prints, the second *)
(* with the one-argument VCS_GetErrorInfo call, then return False.         *)
(***************************************************************************)
failed_result(g) == IF g = "fault" THEN Crash ELSE Return(PyFalse)

\* ctypes.c_int8(mode): the low 8 bits, signed.
c_int8(n) == ((n + 128) % 256) - 128

(***************************************************************************)
(* set_operation_mode                                                      *)
(***************************************************************************)
set_operation_mode_do(mode, r, ec, g) ==
    /\ op' = [name |-> "set_operation_mode", arg |-> <<mode>>]
    /\ calls' = <<HW("VCS_SetOperationMode", key_handle,
                     <<node_id, c_int8(mode)>>, r, 0, ec)>>
                  \o (IF r # 0 THEN <<>> ELSE GetErrorInfo1(ec, g))
    /\ result' = IF r # 0 THEN Return(PyTrue) ELSE failed_result(g)
    /\ UNCHANGED <<session, key_handle, live, lifecycle>>

set_operation_mode(mode) ==
    \E r \in HwRets(key_handle) : \E ec \in HwCodes(r) :
    \E g \in (IF r = 0 THEN GetErrorInfoOutcomes ELSE {"returned"}) :
        set_operation_mode_do(mode, r, ec, g)

(***************************************************************************)
(* get_operation_mode                                                      *)
(***************************************************************************)
\* Mode codes of OPERATION_MODE_MAP the device reports in the model.
ModeCodes == {1, 3, -1}
\* mode_c starts as c_int8() = 0 and a failed read leaves it.
ModeOut(r) == IF r = 0 THEN {0} ELSE ModeCodes

get_operation_mode_do(r, m, ec, g) ==
    /\ op' = [name |-> "get_operation_mode", arg |-> <<>>]
    /\ calls' = <<HW("VCS_GetOperationMode", key_handle, <<node_id>>, r, m, ec)>>
                  \o (IF r # 0 THEN <<>> ELSE GetErrorInfo1(ec, g))
    /\ result' = IF r # 0 THEN Return(PyInt(m)) ELSE failed_result(g)
    /\ UNCHANGED <<session, key_handle, live, lifecycle>>

get_operation_mode ==
    \E r \in HwRets(key_handle) : \E m \in ModeOut(r) : \E ec \in HwCodes(r) :
    \E g \in (IF r = 0 THEN GetErrorInfoOutcomes ELSE {"returned"}) :
        get_operation_mode_do(r, m, ec, g)

(***************************************************************************)
(* set_ppm_parameter                                                       *)
(***************************************************************************)
set_ppm_parameter_do(velocity, acceleration, deceleration, r, ec, g) ==
    /\ op' = [name |-> "set_ppm_parameter",
              arg |-> <<velocity, acceleration, deceleration>>]
    /\ calls' = <<HW("VCS_SetPositionProfile", key_handle,
                     <<node_id, velocity, acceleration, deceleration>>, r, 0, ec)>>
                  \o (IF r # 0 THEN <<>> ELSE GetErrorInfo1(ec, g))
    /\ result' = IF r # 0 THEN Return(PyTrue) ELSE failed_result(g)
    /\ UNCHANGED <<session, key_handle, live, lifecycle>>

set_ppm_parameter(velocity, acceleration, deceleration) ==
    \E r \in HwRets(key_handle) : \E ec \in HwCodes(r) :
    \E g \in (IF r = 0 THEN GetErrorInfoOutcomes ELSE {"returned"}) :
        set_ppm_parameter_do(velocity, acceleration, deceleration, r, ec, g)

(***************************************************************************)
(* get_ppm_parameter: a list of the three values read, or False.           *)
(***************************************************************************)
get_ppm_parameter_do(r, ec, g) ==
    /\ op' = [name |-> "get_ppm_parameter", arg |-> <<>>]
    /\ calls' = <<HW("VCS_GetPositionProfile", key_handle, <<node_id>>, r, 0, ec)>>
                  \o (IF r # 0 THEN <<>> ELSE GetErrorInfo1(ec, g))
    /\ result' = IF r # 0 THEN Return(PyList) ELSE failed_result(g)
    /\ UNCHANGED <<session, key_handle, live, lifecycle>>

get_ppm_parameter ==
    \E r \in HwRets(key_handle) : \E ec \in HwCodes(r) :
    \E g \in (IF r = 0 THEN GetErrorInfoOutcomes ELSE {"returned"}) :
        get_ppm_parameter_do(r, ec, g)

(***************************************************************************)
(* get_position_encoder                                                    *)
(***************************************************************************)
Positions == {0, 8960, -1}
\* position_c starts as c_int() = 0 and a failed read leaves it.
PositionOut(r) == IF r = 0 THEN {0} ELSE Positions

get_position_encoder_do(r, pos, ec, g) ==
    /\ op' = [name |-> "get_position_encoder", arg |-> <<>>]
    /\ calls' = <<HW("VCS_GetPositionIs", key_handle, <<node_id>>, r, pos, ec)>>
                  \o (IF r # 0 THEN <<>> ELSE GetErrorInfo1(ec, g))
    /\ result' = IF r # 0 THEN Return(PyInt(pos)) ELSE failed_result(g)
    /\ UNCHANGED <<session, key_handle, live, lifecycle>>

get_position_encoder ==
    \E r \in HwRets(key_handle) : \E pos \in PositionOut(r) : \E ec \in HwCodes(r) :
    \E g \in (IF r = 0 THEN GetErrorInfoOutcomes ELSE {"returned"}) :
        get_position_encoder_do(r, pos, ec, g)

(***************************************************************************)
(* get_sensor_type                                                         *)
(***************************************************************************)
\* Keys of SENSOR_TYPE_DESCRIPTION_MAP the device reports in the model.
SensorTypes == {0, 1, 3}
SensorOut(r) == IF r = 0 THEN {0} ELSE SensorTypes

get_sensor_type_do(r, st, ec, g) ==
    /\ op' = [name |-> "get_sensor_type", arg |-> <<>>]
    /\ calls' = <<HW("VCS_GetSensorType", key_handle, <<node_id>>, r, st, ec)>>
                  \o (IF r # 0 THEN <<>> ELSE GetErrorInfo1(ec, g))
    /\ result' = IF r # 0 THEN Return(PyInt(st)) ELSE failed_result(g)
    /\ UNCHANGED <<session, key_handle, live, lifecycle>>

get_sensor_type ==
    \E r \in HwRets(key_handle) : \E st \in SensorOut(r) : \E ec \in HwCodes(r) :
    \E g \in (IF r = 0 THEN GetErrorInfoOutcomes ELSE {"returned"}) :
        get_sensor_type_do(r, st, ec, g)

(***************************************************************************)
(* get_incencoder_parameter: a list of the two values read, or False.      *)
(***************************************************************************)
get_incencoder_parameter_do(r, ec, g) ==
    /\ op' = [name |-> "get_incencoder_parameter", arg |-> <<>>]
    /\ calls' = <<HW("VCS_GetIncEncoderParameter", key_handle, <<node_id>>, r, 0, ec)>>
                  \o (IF r # 0 THEN <<>> ELSE GetErrorInfo1(ec, g))
    /\ result' = IF r # 0 THEN Return(PyList) ELSE failed_result(g)
    /\ UNCHANGED <<session, key_handle, live, lifecycle>>

get_incencoder_parameter ==
    \E r \in HwRets(key_handle) : \E ec \in HwCodes(r) :
    \E g \in (IF r = 0 THEN GetErrorInfoOutcomes ELSE {"returned"}) :
        get_incencoder_parameter_do(r, ec, g)

(***************************************************************************)
(* The caller: any method, in any order, on the constructed session.       *)
(***************************************************************************)
\* A fault in a native call ends the process; an exception is the caller's.
AfterCall(r) == IF r.kind = "crash" THEN "crashed" ELSE "free"

\* Arguments the caller passes to ppm_move_position_encoder:
\* <<target_position, abosolute, immediate, blocking_time>>.
MoveArgs == {<<0, TRUE, TRUE, 1000>>, <<8960, FALSE, TRUE, 0>>,
             <<-8960, TRUE, FALSE, 1000>>}
Modes == {1, 3, 255}
\* Arguments the caller passes to ppm_move_position:
\* <<num, den, abosolute, immediate, block_time>>, the angle being
\* num * pi / den: 0, pi/2, 2pi/3, -2pi/3, 4pi/3.
AngleArgs == {<<0, 1, TRUE, TRUE, 1000>>, <<1, 2, TRUE, TRUE, 1000>>,
              <<2, 3, FALSE, TRUE, 0>>, <<-2, 3, TRUE, FALSE, 1000>>,
              <<4, 3, TRUE, TRUE, 0>>}

Free(A) ==
    /\ pc = "free"
    /\ A
    /\ pc' = AfterCall(result')
    /\ UNCHANGED <<ops, pending, sel, hw>>

Call_open_device == Free(open_device)
Call_close_device == Free(close_device)
Call_clear_fault == Free(clear_fault)
Call_enable_state == Free(enable_state)
Call_disable_state == Free(disable_state)
Call_set_protocal_stack == Free(set_protocal_stack)
Call_initialize_device == Free(initialize_device)
Call_set_operation_mode == Free(\E m \in Modes : set_operation_mode(m))
Call_get_operation_mode == Free(get_operation_mode)
Call_set_ppm_parameter == Free(set_ppm_parameter(800, 10000, 10000))
Call_get_ppm_parameter == Free(get_ppm_parameter)
Call_get_position_encoder == Free(get_position_encoder)
Call_get_sensor_type == Free(get_sensor_type)
Call_get_incencoder_parameter == Free(get_incencoder_parameter)
Call_ppm_move_position_encoder ==
    Free(\E a \in MoveArgs : ppm_move_position_encoder(a[1], a[2], a[3], a[4]))
Call_ppm_move_position ==
    Free(\E a \in AngleArgs : ppm_move_position(a[1], a[2], a[3], a[4], a[5]))

(***************************************************************************)
(* The program entry sequence.  pc names the line of the statement to run  *)
(* next; the session exists (line 484 has run).  An exception in the try   *)
(* block goes to the finally block and is raised again after it; a fault   *)
(* in a native call ends the process where it is.                          *)
(***************************************************************************)
AfterTry(r, nxt) ==
    IF r.kind = "crash" THEN "crashed"
    ELSE IF r.kind = "raise" THEN "L504"
    ELSE nxt

Main(at, nxt, A) ==
    /\ pc = at
    /\ A
    /\ pc' = AfterTry(result', nxt)
    /\ ops' = Append(ops, [name |-> op'.name, out |-> result'.kind])
    /\ pending' = (pending \/ result'.kind = "raise")
    /\ UNCHANGED <<sel, hw>>

Main_L487 == Main("L487", "L488", initialize_device)
Main_L488 == Main("L488", "L490", enable_state)
Main_L490 == Main("L490", "L491", get_sensor_type)
Main_L491 == Main("L491", "L492", get_incencoder_parameter)
Main_L492 == Main("L492", "L495", get_ppm_parameter)
Main_L495 == Main("L495", "L496", set_operation_mode(1))
Main_L496 == Main("L496", "L498", set_ppm_parameter(800, 10000, 10000))
Main_L498 == Main("L498", "L499", get_position_encoder)
Main_L499 == Main("L499", "L500", ppm_move_position_encoder(0, TRUE, TRUE, 1000))
Main_L500 == Main("L500", "L504", get_position_encoder)
Main_L504 == Main("L504", "L505", disable_state)
Main_L505 == Main("L505", "exit", close_device)

Next ==
    \/ Call_open_device
    \/ Call_close_device
    \/ Call_clear_fault
    \/ Call_enable_state
    \/ Call_disable_state
    \/ Call_set_protocal_stack
    \/ Call_initialize_device
    \/ Call_set_operation_mode
    \/ Call_get_operation_mode
    \/ Call_set_ppm_parameter
    \/ Call_get_ppm_parameter
    \/ Call_get_position_encoder
    \/ Call_get_sensor_type
    \/ Call_get_incencoder_parameter
    \/ Call_ppm_move_position_encoder
    \/ Call_ppm_move_position
    \/ Main_L487
    \/ Main_L488
    \/ Main_L490
    \/ Main_L491
    \/ Main_L492
    \/ Main_L495
    \/ Main_L496
    \/ Main_L498
    \/ Main_L499
    \/ Main_L500
    \/ Main_L504
    \/ Main_L505

Spec == Init /\ [][Next]_vars

(***************************************************************************)
(* Discovery: candidate_device runs four enumerations one after the other  *)
(* (device names, protocol stacks, interfaces, ports) and returns the port *)
(* list; candidate_baudrate runs one.  Each is a first call with the       *)
(* restart flag True, then a while loop of calls with the flag False.      *)
(* The loops are modelled call by call: pc = "sel" while one runs.         *)
(*                                                                         *)
(* sel: the method, the enumeration it is in, the list built so far, the   *)
(* end_of_selection variable and the output buffer of that enumeration.    *)
(* An entry is named by its place in the library's selection; 0 is the     *)
(* content of a buffer nothing was written to.                             *)
(* hw: the library's side: the size n of the selection being enumerated    *)
(* (0: none started), the place idx of the entry given last, and how many  *)
(* more calls will fail.                                                   *)
(***************************************************************************)
SelFn(phase) ==
    CASE phase = "device" -> "VCS_GetDeviceNameSelection"
      [] phase = "protocol" -> "VCS_GetProtocolStackNameSelection"
      [] phase = "interface" -> "VCS_GetInterfaceNameSelection"
      [] phase = "port" -> "VCS_GetPortNameSelection"
      [] phase = "baudrate" -> "VCS_GetBaudrateSelection"

\* end_of_selection before the first call: c_int(True) for the device
\* names, c_int() for the others.
InitEos(phase) == IF phase = "device" THEN 1 ELSE 0

NextPhase(phase) ==
    CASE phase = "device" -> "protocol"
      [] phase = "protocol" -> "interface"
      [] phase = "interface" -> "port"
      [] phase = "port" -> "done"
      [] phase = "baudrate" -> "done"

FirstPhase(method) == IF method = "candidate_device" THEN "device" ELSE "baudrate"

\* The loops go on while the flag is 0.
loops_inverted(eos) == ~(eos = 0)

\* while end_of_selection.value == False
more_to_select(eos) == eos = 0

\* The lists grow by one entry a call; the model stops at this length.
MaxCalls == MaxSel + MaxFail + 1

(***************************************************************************)
(* One VCS_Get...Selection call and the append after it.  A failing call   *)
(* writes neither the buffer nor the flag.  A call that succeeds gives the *)
(* next entry (the first one when it restarts) and sets the flag when that *)
(* entry is the last.                                                      *)
(***************************************************************************)
SelectCall(method, phase, restart, b, e, lst, log, h) ==
    \E ok \in BOOLEAN : \E n \in 1 .. MaxSel :
        LET starting == restart \/ h.n = 0
            n2 == IF starting THEN n ELSE h.n
            i2 == IF starting THEN 1 ELSE h.idx + 1
            b2 == IF ok THEN i2 ELSE b
            e2 == IF ok THEN (IF i2 >= n2 THEN 1 ELSE 0) ELSE e
        IN  /\ ~ok => (h.fails > 0 /\ n = 1)
            /\ (ok /\ ~starting) => n = 1
            /\ hw' = IF ok THEN [n |-> n2, idx |-> i2, fails |-> h.fails]
                     ELSE [h EXCEPT !.fails = @ - 1]
            /\ sel' = [method |-> method, phase |-> phase,
                       list |-> Append(lst, b2), eos |-> e2, buf |-> b2]
            /\ calls' = Append(log, HW(SelFn(phase), 0, <<restart>>,
                                       IF ok THEN 1 ELSE 0, <<b2, e2>>,
                                       IF ok THEN 0 ELSE 4660))

\* The method is entered: the first call of its first enumeration.
Sel_start(method) ==
    /\ pc = "free"
    /\ \E f \in 0 .. MaxFail :
           SelectCall(method, FirstPhase(method), TRUE, 0, InitEos(FirstPhase(method)),
                      <<>>, <<>>, [n |-> 0, idx |-> 0, fails |-> f])
    /\ pc' = "sel"
    /\ op' = [name |-> method, arg |-> <<>>]
    /\ result' = NoResult
    /\ UNCHANGED <<session, key_handle, live, lifecycle, ops, pending>>

\* A loop that passes the restart flag again on every turn.
Sel_loop_restarting ==
    /\ pc = "sel"
    /\ more_to_select(sel.eos)
    /\ Len(sel.list) < MaxCalls
    /\ SelectCall(sel.method, sel.phase, TRUE, sel.buf, sel.eos, sel.list, calls, hw)
    /\ UNCHANGED <<session, key_handle, live, lifecycle, pc, op, result, ops, pending>>
\* One turn of the while loop.
Sel_loop ==
    /\ pc = "sel"
    /\ more_to_select(sel.eos)
    /\ Len(sel.list) < MaxCalls
    /\ SelectCall(sel.method, sel.phase, FALSE, sel.buf, sel.eos, sel.list, calls, hw)
    /\ UNCHANGED <<session, key_handle, live, lifecycle, pc, op, result, ops, pending>>

\* The loop is left and the next enumeration of candidate_device begins.
Sel_next ==
    /\ pc = "sel"
    /\ ~more_to_select(sel.eos)
    /\ NextPhase(sel.phase) # "done"
    /\ SelectCall(sel.method, NextPhase(sel.phase), TRUE, 0,
                  InitEos(NextPhase(sel.phase)), <<>>, <<>>, hw)
    /\ UNCHANGED <<session, key_handle, live, lifecycle, pc, op, result, ops, pending>>

\* A return that also takes the port of the session from the list, as the
\* constructor does with the list it is given.
Sel_return_resolves_port ==
    /\ pc = "sel"
    /\ ~more_to_select(sel.eos)
    /\ NextPhase(sel.phase) = "done"
    /\ pc' = "free"
    /\ sel' = [sel EXCEPT !.phase = "done"]
    /\ result' = Return(PyList)
    /\ port_name' = (IF sel.list[1] = 1 THEN "USB0" ELSE "")
    /\ UNCHANGED <<device_name, protocol_name, interface_name, node_id,
                   key_handle, live, lifecycle, op, calls, ops, pending, hw>>
\* The last loop is left and the method returns its list.
Sel_return ==
    /\ pc = "sel"
    /\ ~more_to_select(sel.eos)
    /\ NextPhase(sel.phase) = "done"
    /\ pc' = "free"
    /\ sel' = [sel EXCEPT !.phase = "done"]
    /\ result' = Return(PyList)
    /\ UNCHANGED <<session, key_handle, live, lifecycle, op, calls, ops, pending, hw>>

Call_candidate_device == Sel_start("candidate_device")
Call_candidate_baudrate == Sel_start("candidate_baudrate")

NextDiscovery ==
    \/ Call_candidate_device
    \/ Call_candidate_baudrate
    \/ Sel_loop
    \/ Sel_next
    \/ Sel_return

\* A method that was entered runs on: the interpreter does not stop inside
\* a loop.
SpecDiscovery ==
    Init /\ [][NextDiscovery]_vars /\ WF_vars(Sel_loop \/ Sel_next \/ Sel_return)

(***************************************************************************)
(* A caller that mixes the methods with the discovery methods, in any      *)
(* order.  When a method is called the lists and flags of a discovery that *)
(* has returned are gone (they were its locals), and the library's cursor  *)
(* is of no account: every enumeration begins with a restart call.  The    *)
(* caller uses both discovery methods and one method of each kind: open,   *)
(* close, clear fault, enable, disable, mode, profile, move and query.     *)
(***************************************************************************)
Mixed(A) ==
    /\ pc = "free"
    /\ A
    /\ pc' = AfterCall(result')
    /\ sel' = [method |-> "none", phase |-> "none", list |-> <<>>, eos |-> 0, buf |-> 0]
    /\ hw' = [n |-> 0, idx |-> 0, fails |-> 0]
    /\ UNCHANGED <<ops, pending>>

NextSession ==
    \/ Call_candidate_device
    \/ Call_candidate_baudrate
    \/ Sel_loop
    \/ Sel_next
    \/ Sel_return
    \/ Mixed(open_device)
    \/ Mixed(close_device)
    \/ Mixed(clear_fault)
    \/ Mixed(enable_state)
    \/ Mixed(disable_state)
    \/ Mixed(\E m \in Modes : set_operation_mode(m))
    \/ Mixed(set_ppm_parameter(800, 10000, 10000))
    \/ Mixed(get_position_encoder)
    \/ Mixed(\E a \in MoveArgs : ppm_move_position_encoder(a[1], a[2], a[3], a[4]))

SpecSession == Init /\ [][NextSession]_vars

(***************************************************************************)
(* Helpers of the properties.                                              *)
(***************************************************************************)
\* The last invocation called library function fn.
Issued(fn) == \E i \in 1 .. Len(calls) : calls[i].fn = fn
\* How many times the last invocation called fn.
CountIssued(fn) == Cardinality({i \in 1 .. Len(calls) : calls[i].fn = fn})
InvalidState == result.kind = "raise" /\ result.exc = "InvalidState"

(***************************************************************************)
(* C1: ppm_move_position_encoder invoked in a lifecycle state other than   *)
(* Enabled fails with InvalidState and makes no library call.              *)
(* (The method leaves the lifecycle as it found it.)                       *)
(***************************************************************************)
C1_MoveOnlyWhenEnabled ==
    (op.name = "ppm_move_position_encoder" /\ lifecycle # "Enabled")
        => (InvalidState /\ calls = <<>>)

(***************************************************************************)
(* C2: enable_state invoked before clear_fault has succeeded on the open   *)
(* session, or on a session never opened or closed, fails with             *)
(* InvalidState and does not issue VCS_SetEnableState.  (From these three  *)
(* states enable_state leaves the lifecycle as it found it.)               *)
(***************************************************************************)
C2_EnableOnlyAfterClearFault ==
    (op.name = "enable_state" /\ lifecycle \in {"Unopened", "Opened", "Closed"})
        => (InvalidState /\ ~Issued("VCS_SetEnableState"))

(***************************************************************************)
(* C3: when VCS_GetNbOfDeviceError reports a count of 1 or more,           *)
(* enable_state returns failure and VCS_SetEnableState is not issued in    *)
(* that invocation.                                                        *)
(***************************************************************************)
C3_EnableRefusedOnDeviceErrors ==
    (op.name = "enable_state"
       /\ \E i \in 1 .. Len(calls) :
              calls[i].fn = "VCS_GetNbOfDeviceError" /\ calls[i].out >= 1)
        => (result = Return(PyFalse) /\ ~Issued("VCS_SetEnableState"))

C3_Witness ==
    /\ op.name = "enable_state"
    /\ calls[1].fn = "VCS_GetNbOfDeviceError"
    /\ calls[1].out = 1
    /\ lifecycle = "Ready"

C5_AcceptedMoveSucceeds ==
    [][(op'.name = "ppm_move_position_encoder" /\ calls'[1].ret # 0)
        => /\ Len(calls') = 2
           /\ calls'[1].fn = "VCS_MoveToPosition"
           /\ calls'[2].fn = "VCS_WaitForTargetReached"
           /\ calls'[2].handle = key_handle
           /\ calls'[2].arg = <<node_id, op'.arg[4]>>
           /\ result' = Return(PyTrue)
           /\ key_handle' = key_handle
           /\ lifecycle' = lifecycle
           /\ live' = live
           /\ session' = session]_vars

C5_Witness ==
    /\ op.name = "ppm_move_position_encoder"
    /\ Len(calls) = 2
    /\ calls[1].ret # 0
    /\ calls[2].fn = "VCS_WaitForTargetReached"
    /\ calls[2].ret = 0
    /\ op.arg[4] = 1000
    /\ result = Return(PyTrue)

(***************************************************************************)
(* C6: key_handle is nonzero only while the library holds that handle      *)
(* open, and a successful close_device leaves key_handle = 0.              *)
(***************************************************************************)
C6_HandleZeroIffNotOpen ==
    /\ key_handle # 0 => key_handle \in live
    /\ (op.name = "close_device" /\ result = Return(PyTrue)) => key_handle = 0

(***************************************************************************)
(* C7: open_device calls VCS_OpenDevice once, with the session's device,   *)
(* protocol, interface and port names, stores what it returned in          *)
(* key_handle, and returns True exactly when that value is nonzero (False  *)
(* otherwise); after a failed open key_handle is 0.                        *)
(***************************************************************************)
C7_OpenStoresHandle ==
    op.name = "open_device"
        => /\ CountIssued("VCS_OpenDevice") = 1
           /\ calls[1].fn = "VCS_OpenDevice"
           /\ calls[1].arg = <<device_name, protocol_name, interface_name, port_name>>
           /\ key_handle = calls[1].ret
           /\ result = (IF calls[1].ret # 0 THEN Return(PyTrue) ELSE Return(PyFalse))
           /\ (result = Return(PyFalse) => key_handle = 0)

\* A failed open on a session that had opened before.
C7_Witness ==
    /\ op.name = "open_device"
    /\ calls[1].ret = 0
    /\ result = Return(PyFalse)
    /\ live # {}

(***************************************************************************)
(* C8: enable_state returns True only if VCS_SetEnableState returned       *)
(* success and the VCS_GetEnableState call after it reported the device    *)
(* enabled; otherwise it returns False.                                    *)
(***************************************************************************)
EnableConfirmed ==
    \E i \in 1 .. Len(calls) - 1 :
        /\ calls[i].fn = "VCS_SetEnableState"
        /\ calls[i].ret # 0
        /\ calls[i + 1].fn = "VCS_GetEnableState"
        /\ calls[i + 1].out = 1

C8_EnableNeedsConfirmation ==
    op.name = "enable_state"
        => result = (IF EnableConfirmed THEN Return(PyTrue) ELSE Return(PyFalse))

\* The command is reported successful and the re-query says not enabled.
C8_Witness ==
    /\ op.name = "enable_state"
    /\ \E i \in 1 .. Len(calls) - 1 :
           /\ calls[i].fn = "VCS_SetEnableState"
           /\ calls[i].ret # 0
           /\ calls[i + 1].fn = "VCS_GetEnableState"
           /\ calls[i + 1].out = 0
    /\ result = Return(PyFalse)

(***************************************************************************)
(* C9: every discovery enumeration (device names, protocol stacks,         *)
(* interfaces, ports, baud rates) that is entered is left again, after at  *)
(* most MaxSel + MaxFail calls, when the library sets the end-of-selection *)
(* flag within that many calls; also when the flag is false after the      *)
(* first call.                                                             *)
(***************************************************************************)
Phases == {"device", "protocol", "interface", "port", "baudrate"}

C9_EnumerationTerminates ==
    /\ \A ph \in Phases :
           (pc = "sel" /\ sel.phase = ph) ~> (pc = "free" \/ sel.phase # ph)
    /\ [](Len(calls) <= MaxSel + MaxFail)

\* An enumeration of candidate_baudrate returned after the flag was false
\* for three calls and then true.
C9_Witness ==
    /\ pc = "free"
    /\ op.name = "candidate_baudrate"
    /\ sel.phase = "done"
    /\ Len(calls) = 4
    /\ \A i \in 1 .. 3 : calls[i].ret = 1 /\ calls[i].out[2] = 0
    /\ calls[4].out[2] = 1
    /\ Len(sel.list) = 4

round_div(a, b) ==
    IF a >= 0 THEN (2 * a + b) \div (2 * b) ELSE -((2 * (-a) + b) \div (2 * b))

C11_TargetIsRoundedCount ==
    op.name = "ppm_move_position"
        => /\ calls[1].fn = "VCS_MoveToPosition"
           /\ calls[1].arg[2] = round_div(143360 * op.arg[1], 2 * op.arg[2])
           /\ (op.arg[1] = 0 => calls[1].arg[2] = 0)
           /\ (op.arg[1] = 1 /\ op.arg[2] = 2) => calls[1].arg[2] = 8960

(***************************************************************************)
(* C18: ppm_move_position makes ppm_move_position_encoder's move once,     *)
(* with the converted target and the caller's absolute flag, immediate     *)
(* flag and wait timeout, and gives its caller the delegate's outcome:     *)
(* True when the move was accepted, no normal return when it was rejected. *)
(***************************************************************************)
C18_AngleMoveDelegates ==
    op.name = "ppm_move_position"
        => /\ CountIssued("VCS_MoveToPosition") = 1
           /\ calls[1].arg = <<node_id, ppm_move_position_target(op.arg[1], op.arg[2]),
                               op.arg[3], op.arg[4]>>
           /\ (calls[1].ret # 0
                 => /\ calls[2].fn = "VCS_WaitForTargetReached"
                    /\ calls[2].arg = <<node_id, op.arg[5]>>
                    /\ result = Return(PyTrue))
           /\ (calls[1].ret = 0 => result.kind # "return")

(***************************************************************************)
(* C12: each discovery enumeration follows the restart/continue protocol:  *)
(* its first library call passes the restart flag true and every later     *)
(* call passes it false; a further call is made if and only if the         *)
(* end-of-selection flag after the previous call is false; and the list    *)
(* holds exactly one entry per call made, in call order, so it has at      *)
(* least one entry.  (calls is the log of the enumeration in hand and      *)
(* sel.list its list; the list of the last enumeration is the one the      *)
(* method returns.)                                                        *)
(***************************************************************************)
C12_ProtocolOfCalls ==
    sel.phase # "none"
        => /\ Len(calls) >= 1
           /\ Len(sel.list) = Len(calls)
           /\ calls[1].arg = <<TRUE>>
           /\ \A i \in 2 .. Len(calls) : calls[i].arg = <<FALSE>>
           /\ \A i \in 1 .. Len(calls) - 1 : calls[i].out[2] = 0
           /\ \A i \in 1 .. Len(calls) : sel.list[i] = calls[i].out[1]
           /\ sel.phase # "done" => \A i \in 1 .. Len(calls) : calls[i].fn = SelFn(sel.phase)
           /\ sel.phase = "done" => calls[Len(calls)].out[2] # 0

C12_RestartContinueProtocol ==
    /\ []C12_ProtocolOfCalls
    /\ [][pc = "sel" =>
            \* the enumeration goes on exactly when the flag is false
            /\ (calls[Len(calls)].out[2] = 0
                  => /\ sel'.phase = sel.phase
                     /\ Len(calls') = Len(calls) + 1
                     /\ SubSeq(calls', 1, Len(calls)) = calls)
            /\ (calls[Len(calls)].out[2] # 0
                  => /\ sel'.phase # sel.phase
                     /\ (sel'.phase # "done" => Len(calls') = 1)
                     /\ (sel'.phase = "done" => calls' = calls /\ sel'.list = sel.list))]_vars

C12_Witness ==
    /\ op.name = "candidate_baudrate"
    /\ sel.phase = "done"
    /\ result = Return(PyList)
    /\ Len(sel.list) = 3
    /\ sel.list = <<1, 2, 3>>

\* The caller is told of a failure: an exception or the value False.
FailureReported == result.kind = "raise" \/ result = Return(PyFalse)

(***************************************************************************)
(* C13: initialize_device never continues silently past a failure: when    *)
(* its open fails (handle 0) the failure is reported to the caller and     *)
(* neither VCS_SetProtocolStackSettings nor VCS_ClearFault is issued; and  *)
(* when its clear_fault fails, initialize_device reports that failure.     *)
(***************************************************************************)
C13_InitializeStopsAtFailure ==
    op.name = "initialize_device"
        => /\ (calls[1].fn = "VCS_OpenDevice" /\ calls[1].ret = 0)
                => /\ FailureReported
                   /\ ~Issued("VCS_SetProtocolStackSettings")
                   /\ ~Issued("VCS_ClearFault")
           /\ (\E i \in 1 .. Len(calls) :
                   calls[i].fn = "VCS_ClearFault" /\ calls[i].ret = 0)
                => FailureReported

(***************************************************************************)
(* C14: a discovery operation whose library call itself fails (returns 0   *)
(* and writes neither the name nor the end-of-selection flag) reports a    *)
(* failure to its caller: the content of the unwritten buffer is not       *)
(* appended as a candidate, no further call of the enumeration follows the *)
(* failed one, and the method does not return a list.                      *)
(***************************************************************************)
C14_FailedEnumerationReported ==
    (sel.phase # "none" /\ \E i \in 1 .. Len(calls) : calls[i].ret = 0)
        => /\ \A i \in 1 .. Len(calls) : calls[i].ret = 0 => i = Len(calls)
           /\ Len(sel.list) < Len(calls)
           /\ sel.phase = "done" => FailureReported

(***************************************************************************)
(* C15: close_device on a session that is not open (never opened, open     *)
(* failed, or closed already: the library does not hold key_handle open)   *)
(* is a no-op success or an explicit AlreadyClosed error, and              *)
(* VCS_CloseDevice is not issued in that call.                             *)
(***************************************************************************)
C15_CloseOfClosedSession ==
    [][(op'.name = "close_device" /\ key_handle \notin live)
        => /\ \A i \in 1 .. Len(calls') : calls'[i].fn # "VCS_CloseDevice"
           /\ \/ result' = Return(PyTrue)
              \/ (result'.kind = "raise" /\ result'.exc = "AlreadyClosed")]_vars

(***************************************************************************)
(* C16: disable_state is accepted only in Enabled: invoked in any other    *)
(* lifecycle state it fails with InvalidState and does not issue           *)
(* VCS_SetDisableState; and it returns success only if VCS_SetDisableState *)
(* reported success and the VCS_GetDisableState re-query that follows      *)
(* reports the device disabled.                                            *)
(***************************************************************************)
C16_DisableOnlyWhenEnabled ==
    [][op'.name = "disable_state"
        => /\ lifecycle # "Enabled"
                => /\ result'.kind = "raise" /\ result'.exc = "InvalidState"
                   /\ \A i \in 1 .. Len(calls') : calls'[i].fn # "VCS_SetDisableState"
           /\ result' = Return(PyTrue)
                => /\ Len(calls') = 2
                   /\ calls'[1].fn = "VCS_SetDisableState" /\ calls'[1].ret # 0
                   /\ calls'[2].fn = "VCS_GetDisableState"
                   /\ calls'[2].out = 1]_vars

\* The methods C17 names.
RetryFree ==
    {"open_device", "close_device", "clear_fault", "enable_state", "disable_state",
     "set_operation_mode", "set_ppm_parameter", "ppm_move_position_encoder"}
\* A command to the device: it takes the key handle (VCS_OpenDevice returns
\* it).  VCS_GetErrorInfo only looks a text up in the library.
IsCommand(c) == c.fn # "VCS_GetErrorInfo"
\* No library function is called twice by the last invocation.
EachCommandOnce ==
    \A i, j \in 1 .. Len(calls) :
        (IsCommand(calls[i]) /\ calls[i].fn = calls[j].fn) => i = j

(***************************************************************************)
(* C17: no operation retries.  Within one invocation of open_device,       *)
(* close_device, clear_fault, enable_state, disable_state,                 *)
(* set_operation_mode, set_ppm_parameter or ppm_move_position_encoder each *)
(* hardware command is issued at most once, whether it succeeds or fails,  *)
(* and the failure of a command is returned to the caller: the invocation  *)
(* does not end in success.  (The wait of an accepted move is left out of  *)
(* the second part: C5 makes its outcome immaterial.)                      *)
(***************************************************************************)
C17_NoRetries ==
    op.name \in RetryFree
        => /\ EachCommandOnce
           /\ \A i \in 1 .. Len(calls) :
                  (IsCommand(calls[i]) /\ calls[i].ret = 0
                     /\ calls[i].fn # "VCS_WaitForTargetReached")
                    => result # Return(PyTrue)

(***************************************************************************)
(* C19: after construction the addressing identity of the session is       *)
(* fixed: no step of open, close, clear-fault, enable, disable, mode,      *)
(* profile, move, query or discovery changes device_name, protocol_name,   *)
(* interface_name, port_name or node_id, node_id stays 1, and key_handle   *)
(* is written only by open_device (and close): the other methods leave it  *)
(* as it is.                                                               *)
(***************************************************************************)
C19_IdentityFixed ==
    /\ [](node_id = 1)
    /\ [][/\ session' = session
          /\ key_handle' # key_handle
                => op'.name \in {"open_device", "close_device"}]_vars

\* Discovery has run on a session that was opened and enabled before.
C19_Witness ==
    /\ op.name = "candidate_baudrate"
    /\ sel.phase = "done"
    /\ result = Return(PyList)
    /\ key_handle = 1
    /\ lifecycle = "Enabled"
    /\ port_name = "USB1"

(***************************************************************************)
(* C20: device_error_check passes (True) only when the                     *)
(* VCS_GetNbOfDeviceError query itself succeeded and gave a count of zero. *)
(* In enable_state, which issues VCS_SetEnableState exactly when the check *)
(* passes: VCS_SetEnableState is issued only after a query that succeeded  *)
(* with count zero, and after a failed query (count left unwritten)        *)
(* enable_state does not end in success.                                   *)
(***************************************************************************)
C20_FailedQueryDoesNotPass ==
    op.name = "enable_state"
        => /\ calls[1].fn = "VCS_GetNbOfDeviceError"
           /\ Issued("VCS_SetEnableState") => (calls[1].ret # 0 /\ calls[1].out = 0)
           /\ calls[1].ret = 0 => result # Return(PyTrue)

(***************************************************************************)
(* What a caller can do with a returned value: compare it (==) and test it *)
(* (if value:).  In Python bool is a kind of int, False == 0 and           *)
(* True == 1; None and a list equal only their like; 0, False and None     *)
(* test as false, the lists of the get_ methods (never empty) as true.     *)
(***************************************************************************)
py_number(v) == v.t \in {"int", "bool"}
py_eq(a, b) ==
    IF py_number(a) /\ py_number(b) THEN a.v = b.v ELSE a = b
py_falsy(v) ==
    IF py_number(v) THEN v.v = 0 ELSE v.t = "none"

\* The three reads of C21 and the value they return when the read fails.
Reads == {"get_position_encoder", "get_operation_mode", "get_sensor_type"}
FailureValue == failed_result("returned").val

(***************************************************************************)
(* C21: for get_position_encoder, get_operation_mode and get_sensor_type a *)
(* failed read can always be told from a successful one: no value returned *)
(* by a read that succeeded (encoder position 0 and sensor type 0          *)
(* included) compares equal to the failure result or tests as false as the *)
(* failure result does.                                                    *)
(***************************************************************************)
C21_FailedReadDistinguishable ==
    (op.name \in Reads /\ calls[1].ret # 0)
        => /\ result.kind = "return"
           /\ ~py_eq(result.val, FailureValue)
           /\ py_falsy(FailureValue) => ~py_falsy(result.val)
====
